---- MODULE Spec2Model ----
(***************************************************************************)
(* Model of output/fill_data.py: the synthetic record generator            *)
(* (CompleteUserGenerator) and the console automation controller           *)
(* (CompleteBusinessHallAutomation) that drives one child process through  *)
(* wexpect.                                                                *)
(*                                                                         *)
(* A Python string is modelled as a sequence of one-character strings, so  *)
(* that slicing, concatenation and int(ch) are what the code does.  Every  *)
(* CJK character of the source is written as one romanised token (for      *)
(* instance "Wang" is the single character of last_names[0]).              *)
(***************************************************************************)
EXTENDS Integers, Sequences, FiniteSets, TLC

(* ------------------------------ bounds --------------------------------- *)
\* largest batch size user_count given to run_complete_workflow
MaxUsers == 5
\* largest k of one get_users(k) call in the generator-only specification
MaxGet == 3
\* the generator-only specification stops serving after this many records
MaxServed == 1100
\* the random state of the generator's construction is one of 0..MaxSeed
MaxSeed == 0

(* --------------------------- program constants ------------------------- *)
\* range(500) at __init__
PoolSize == 500

(* ------------------------------ strings -------------------------------- *)
DigitChar == <<"0", "1", "2", "3", "4", "5", "6", "7", "8", "9">>

\* int(ch) for a decimal digit character
IntOf(ch) == CHOOSE d \in 0..9 : DigitChar[d + 1] = ch

RECURSIVE Str(_)
\* str(n) for n >= 0
Str(n) == IF n < 10 THEN <<DigitChar[n + 1]>>
          ELSE Str(n \div 10) \o <<DigitChar[(n % 10) + 1]>>

RECURSIVE Zeros(_)
Zeros(k) == IF k <= 0 THEN <<>> ELSE <<"0">> \o Zeros(k - 1)

\* f"{n:0wd}" : zero padded to at least w characters
Fmt(n, w) == Zeros(w - Len(Str(n))) \o Str(n)

\* s[:k]
Prefix(s, k) == SubSeq(s, 1, IF Len(s) < k THEN Len(s) ELSE k)

(* --------------------- CompleteUserGenerator.__init__ ------------------ *)
last_names == <<"Wang", "Li", "Zhang", "Liu", "Chen", "Yang", "Zhao", "Huang", "Zhou", "Wu">>
first_names == <<"Wei", "Fang", "Na", "Min", "Jing", "Li2", "Qiang", "Lei", "Jun", "Jie">>
\* each job and each city is a multi-character string; its characters are kept
\* together as one token since the code never looks inside them
jobs == <<"GongChengShi", "JiaoShi", "YiSheng", "XiaoShou", "JingLi", "ChengXuYuan">>
cities == <<"BeiJingShi", "ShangHaiShi", "GuangZhouShi", "ShenZhenShi", "HangZhouShi", "NanJingShi">>
genders == <<"Nan", "Nv">>
area_codes == << <<"1","1","0","1","0","1">>, <<"3","1","0","1","0","4">>,
                 <<"4","4","0","1","0","3">>, <<"4","4","0","1","0","4">> >>

weights == <<7, 9, 10, 5, 8, 4, 2, 1, 6, 3, 7, 9, 10, 5, 8, 4, 2>>
check_codes == <<"1", "0", "X", "9", "8", "7", "6", "5", "4", "3", "2">>

(* ------------------------- datetime arithmetic ------------------------- *)
\* number of days from 1970-01-01 to the proleptic Gregorian date y-m-d
DaysFromCivil(y, m, d) ==
    LET yy  == IF m <= 2 THEN y - 1 ELSE y
        era == yy \div 400
        yoe == yy - era * 400
        mp  == IF m > 2 THEN m - 3 ELSE m + 9
        doy == (153 * mp + 2) \div 5 + d - 1
        doe == yoe * 365 + yoe \div 4 - yoe \div 100 + doy
    IN  era * 146097 + doe - 719468

\* the year of the date that is z days after 1970-01-01
YearOfDays(z) ==
    LET zz  == z + 719468
        era == zz \div 146097
        doe == zz - era * 146097
        yoe == (doe - doe \div 1460 + doe \div 36524 - doe \div 146096) \div 365
        doy == doe - (365 * yoe + yoe \div 4 - yoe \div 100)
        mp  == (5 * doy + 2) \div 153
        m   == IF mp < 10 THEN mp + 3 ELSE mp - 9
    IN  yoe + era * 400 + (IF m <= 2 THEN 1 ELSE 0)

\* (datetime.now() - timedelta(days=18*365)).year, now = <<y, m, d>>
max_birth_year(now) == YearOfDays(DaysFromCivil(now[1], now[2], now[3]) - 18 * 365)
\* (datetime.now() - timedelta(days=60*365)).year
min_birth_year(now) == YearOfDays(DaysFromCivil(now[1], now[2], now[3]) - 60 * 365)

(* ----------------------------- generation ------------------------------ *)
RECURSIVE WeightedSum(_, _)
\* sum(int(id17[i]) * self.weights[i] for i in range(k))
WeightedSum(id17, k) ==
    IF k = 0 THEN 0
    ELSE WeightedSum(id17, k - 1) + IntOf(id17[k]) * weights[k]

\* mutant of _calc_check_code: the remainder is taken modulo 10
_calc_check_code_mod10(id17) == check_codes[(WeightedSum(id17, 17) % 10) + 1]

_calc_check_code(id17) == check_codes[(WeightedSum(id17, 17) % 11) + 1]

\* d holds the random draws: d.area in 1..4, d.year, d.month, d.day, d.seq
_generate_valid_id(d) ==
    LET birth == Fmt(d.year, 4) \o Fmt(d.month, 2) \o Fmt(d.day, 2)
        id17  == area_codes[d.area] \o birth \o Fmt(d.seq, 3)
    IN  id17 \o <<_calc_check_code(id17)>>

\* d.ext models random.random() > 0.3
_generate_valid_user(d) ==
    LET name == <<last_names[d.ln], first_names[d.fn1]>>
                \o (IF d.ext THEN <<first_names[d.fn2]>> ELSE <<>>)
    IN  [name    |-> Prefix(name, 6),
         gender  |-> <<genders[d.gender]>>,
         age     |-> Str(d.age),
         id_card |-> _generate_valid_id(d),
         job     |-> <<jobs[d.job]>>,
         address |-> <<cities[d.city], "ZhongShanLu">> \o Str(d.num) \o <<"Hao">>]

\* the date of the construction of the generator
ConstructedOn == <<2026, 11, 1>>

\* The draws of the i-th call of _generate_valid_user (i = 0, 1, ...) when the
\* random generator was left in state seed: every draw is inside the range the
\* code gives to random.choice / random.randint.
Draws(seed, i) ==
    LET lo == min_birth_year(ConstructedOn)
        hi == max_birth_year(ConstructedOn)
    IN  [ln     |-> ((i + seed) % 10) + 1,
         fn1    |-> ((i \div 10) % 10) + 1,
         ext    |-> (i + seed) % 10 >= 3,
         fn2    |-> ((i \div 100 + seed) % 10) + 1,
         gender |-> (i % 2) + 1,
         age    |-> 18 + ((7 * i + seed) % 43),
         area   |-> (i % 4) + 1,
         year   |-> lo + ((3 * i + seed) % (hi - lo + 1)),
         month  |-> 1 + (i % 12),
         day    |-> 1 + ((5 * i) % 28),
         seq    |-> (i + 500 * seed) % 1000,
         job    |-> (i % 6) + 1,
         city   |-> ((i \div 6) % 6) + 1,
         num    |-> 1 + ((2 * i + seed) % 999)]

\* The dict object made by the j-th call (j = 1, 2, ...) of
\* _generate_valid_user during __init__.  No statement of the program assigns
\* to a key of such a dict, so a dict keeps this content for the whole run.
UserDict(s, j) == _generate_valid_user(Draws(s, j - 1))

\* [self._generate_valid_user() for _ in range(500)]: the list of references
\* to the 500 dicts, as a 1-based sequence (Python's pre_generated_users[j] is
\* element j + 1); a reference is the number of the call that made the dict.
NewPool == [j \in 1..PoolSize |-> j]

RECURSIVE get_users_loop_increment_first(_, _, _, _)
\* mutant of get_users_loop: the index is advanced before the record is read
get_users_loop_increment_first(pool, idx, k, users) ==
    IF k <= 0 THEN [users |-> users, index |-> idx]
    ELSE get_users_loop_increment_first(pool, (idx + 1) % Len(pool), k - 1,
                                        Append(users, pool[((idx + 1) % Len(pool)) + 1]))

RECURSIVE get_users_loop(_, _, _, _)
\* the for loop of get_users: k iterations left
get_users_loop(pool, idx, k, users) ==
    IF k <= 0 THEN [users |-> users, index |-> idx]
    ELSE get_users_loop(pool, (idx + 1) % Len(pool), k - 1, Append(users, pool[idx + 1]))

\* get_users(n) on a generator whose fields are pool and idx: the list it
\* returns and the index it leaves
get_users(pool, idx, n) == get_users_loop(pool, idx, n, <<>>)

(* ------------------------------- state --------------------------------- *)
VARIABLES
    seed,                 \* the random state the generator was constructed from
    pre_generated_users,  \* CompleteUserGenerator.pre_generated_users
    index,                \* CompleteUserGenerator.index
    served,               \* history: records returned by get_users so far
    last_get,             \* history: the list the latest get_users returned
    last_n,               \* history: the argument of the latest get_users
    proc,                 \* self.proc: "None", or "open" once wexpect.spawn returned
    pc,                   \* the statement run_complete_workflow is at
    stack,                \* return points of the calls in progress, outermost first
    rv,                   \* the value the latest finished call returned and the
                          \* caller has not used yet: "True", "False", "None" or 1
    user_count,           \* argument of run_complete_workflow
    users,                \* local users of run_complete_workflow
    i,                    \* local i of the batch loop (0 before the loop)
    success,              \* local success of run_complete_workflow
    result,               \* what run_complete_workflow returned, <<>> before
    ss_i,                 \* loop variable of start_system
    emm_i,                \* loop variable of ensure_main_menu
    fkey,                 \* position of the field loop of add_user_complete
    sent,                 \* history: the lines given to sendline since the batch
                          \* loop last began a record (or began the final save)
    consec_writes,        \* history: lines written since the latest expect
    waits,                \* history: calls of wait_for_prompt since sent was last
                          \* emptied
    unmatched,            \* history: some expect of the run did not match
    last_expect,          \* history: outcome of the latest expect, "None" before
    field_hit,            \* history: a field prompt of the current record matched
    started,              \* history: what start_system returned, "None" before
    wfails,               \* history: the writes that failed so far, see NoWriteFailed
    add_calls,            \* history: calls of add_user_complete
    recoveries,           \* history: executions of the except clause of the loop
    today,                \* the date datetime.now() gives, <<year, month, day>>
    made_id,              \* what the latest call of _generate_valid_id returned,
                          \* <<>> before the first
    made_user             \* what the latest call of a generating method returned
                          \* if that was _generate_valid_user, <<>> otherwise

id_vars == <<today, made_id, made_user>>
gen_vars == <<seed, pre_generated_users, index, served, last_get, last_n, id_vars>>
run_vars == <<user_count, users, i, success, result>>
loop_vars == <<ss_i, emm_i, fkey>>
io_vars == <<sent, consec_writes, waits, unmatched, last_expect, wfails>>
count_vars == <<add_calls, recoveries, field_hit, started>>

vars == <<gen_vars, proc, pc, stack, rv, run_vars, loop_vars, io_vars, count_vars>>

\* What is remembered of the failed writes: how many ("none", "one",
\* "several"), and of a single one the record whose add_user_complete made it
\* (0: made outside of add_user_complete) and its place in sent (0 once sent
\* has been emptied).
NoWriteFailed == [n |-> "none", rec |-> 0, pos |-> 0]

\* CompleteUserGenerator.__init__
GenInit ==
    /\ seed \in 0..MaxSeed
    /\ pre_generated_users = NewPool
    /\ index = 0
    /\ served = 0
    /\ last_get = <<>>
    /\ last_n = 0

\* CompleteBusinessHallAutomation.__init__
AutomationInit ==
    /\ proc = "None"
    /\ pc = "run_start"
    /\ stack = <<>>
    /\ rv = "None"
    /\ users = <<>>
    /\ i = 0
    /\ success = 0
    /\ result = <<>>
    /\ ss_i = 0
    /\ emm_i = 0
    /\ fkey = 1
    /\ sent = <<>>
    /\ consec_writes = 0
    /\ waits = 0
    /\ unmatched = FALSE
    /\ last_expect = "None"
    /\ field_hit = FALSE
    /\ started = "None"
    /\ wfails = NoWriteFailed
    /\ add_calls = 0
    /\ recoveries = 0

\* the generator and the controller constructed, and main() about to call
\* run_complete_workflow(count)
Init ==
    /\ GenInit
    /\ AutomationInit
    /\ user_count \in 0..MaxUsers
    /\ today = ConstructedOn
    /\ made_id = <<>>
    /\ made_user = <<>>

(* ----------------------------- the generator --------------------------- *)
\* one call self.user_gen.get_users(n)
CallGetUsers(n) ==
    LET r == get_users(pre_generated_users, index, n)
    IN  /\ index' = r.index
        /\ last_get' = r.users
        /\ last_n' = n
        /\ served' = served + Len(r.users)
        /\ UNCHANGED <<seed, pre_generated_users, id_vars>>

\* a client of the generator that calls get_users(k) again and again
GenGet ==
    /\ \E k \in 0..MaxGet :
        /\ served + k <= MaxServed
        /\ CallGetUsers(k)
    /\ UNCHANGED <<proc, pc, stack, rv, run_vars, loop_vars, io_vars, count_vars>>

(* ------------------------------ the child ------------------------------ *)
\* self.proc.expect(patterns, timeout): a pattern matched, wexpect.TIMEOUT was
\* raised, or another exception was raised (wexpect.EOF when the child is gone)
ExpectOutcomes == {"match", "timeout", "error"}

\* self.proc.sendline(line): written (TRUE) or an exception was raised (FALSE)
SendOutcomes == {TRUE, FALSE}

\* wexpect.spawn(...): the child was started (TRUE) or spawn raised (FALSE)
SpawnOutcomes == {TRUE, FALSE}

FieldKeys == <<"name", "gender", "age", "id_card", "job", "address">>

(* ------------------------- control of the calls ------------------------ *)
Goto(l) == /\ pc' = l
           /\ UNCHANGED <<stack, rv>>

\* the same, after the statement that used the value of the latest call
GotoUsed(l) == /\ pc' = l
               /\ rv' = "None"
               /\ UNCHANGED stack

\* call of a function whose first statement is entry; l is where the caller
\* goes on when it returns
Call(entry, l) == /\ pc' = entry
                  /\ stack' = Append(stack, l)
                  /\ UNCHANGED rv

\* return v
Return(v) == /\ pc' = stack[Len(stack)]
             /\ stack' = SubSeq(stack, 1, Len(stack) - 1)
             /\ rv' = v

\* An exception raised by expect leaves wait_for_prompt (it catches only
\* wexpect.TIMEOUT) and every frame up to the nearest try: the one of
\* start_system (which returns False), the one of the batch loop around
\* add_user_complete, or none, and then it leaves run_complete_workflow.
\* The locals of the frames it leaves are gone.
Raise ==
    /\ stack' = <<>>
    /\ ss_i' = 0 /\ emm_i' = 0 /\ fkey' = 1
    /\ IF stack[1] = "run_started"
       THEN pc' = "run_started" /\ rv' = "False"
       ELSE IF stack[1] = "run_add_ret"
       THEN pc' = "run_except" /\ UNCHANGED rv
       ELSE pc' = "raised" /\ UNCHANGED rv

\* the record whose add_user_complete is running, 0 when none is
InAddOf == IF stack # <<>> /\ stack[1] = "run_add_ret" THEN i ELSE 0

(* ------------------------------- the I/O ------------------------------- *)
\* wait_for_prompt up to the outcome o of its expect
Read(o) ==
    /\ consec_writes' = 0
    /\ waits' = waits + 1
    /\ unmatched' = (unmatched \/ o # "match")
    /\ last_expect' = o
    /\ UNCHANGED <<sent, wfails>>

\* self.proc.sendline(line) inside the try of send_command / press_any_key:
\* an exception is logged and goes no further
Sendline(line, ok) ==
    /\ sent' = Append(sent, line)
    /\ consec_writes' = consec_writes + 1
    /\ wfails' = IF ok THEN wfails
                 ELSE IF wfails.n = "none"
                 THEN [n |-> "one", rec |-> InAddOf, pos |-> Len(sent) + 1]
                 ELSE [n |-> "several", rec |-> 0, pos |-> 0]
    /\ UNCHANGED <<waits, unmatched, last_expect>>

\* wait_for_prompt(patterns) at statement at: on a match go to l_match, on a
\* timeout to l_timeout
WaitThen(o, l_match, l_timeout) ==
    /\ Read(o)
    /\ IF o = "error" THEN Raise
       ELSE IF o = "match" THEN Goto(l_match) /\ UNCHANGED loop_vars
       ELSE Goto(l_timeout) /\ UNCHANGED loop_vars

(* ----------------------------- start_system ---------------------------- *)
\* run_complete_workflow calls start_system, which calls wexpect.spawn
start_system_spawn ==
    /\ pc = "run_start"
    /\ \E ok \in SpawnOutcomes :
        IF ok
        THEN /\ proc' = "open"
             /\ Call("ss_wait_init", "run_started")
        ELSE /\ proc' = proc
             /\ pc' = "run_started" /\ rv' = "False" /\ stack' = stack
    /\ UNCHANGED <<gen_vars, run_vars, loop_vars, io_vars, count_vars>>

\* wait_for_prompt([init banner], timeout=20), result not used; then the for
\* loop starts
start_system_wait_init ==
    /\ pc = "ss_wait_init"
    /\ \E o \in ExpectOutcomes : WaitThen(o, "ss_wait_pak", "ss_wait_pak")
    /\ UNCHANGED <<gen_vars, proc, run_vars, count_vars>>

\* if self.wait_for_prompt([press any key], timeout=5):
start_system_wait_pak ==
    /\ pc = "ss_wait_pak"
    /\ \E o \in ExpectOutcomes : WaitThen(o, "ss_press", "ss_wait_menu")
    /\ UNCHANGED <<gen_vars, proc, run_vars, count_vars>>

\* self.press_any_key()
start_system_press ==
    /\ pc = "ss_press"
    /\ \E ok \in SendOutcomes : Sendline(<<>>, ok)
    /\ Goto("ss_wait_menu")
    /\ UNCHANGED <<gen_vars, proc, run_vars, loop_vars, count_vars>>

\* mutant of start_system_wait_menu: start_system gives up (returns False)
\* when the fourth round ends without the main menu
start_system_wait_menu_pessimistic ==
    /\ pc = "ss_wait_menu"
    /\ \E o \in ExpectOutcomes :
        /\ Read(o)
        /\ IF o = "error" THEN Raise
           ELSE IF o = "match" THEN Return("True") /\ ss_i' = 0 /\ UNCHANGED <<emm_i, fkey>>
           ELSE /\ IF ss_i + 1 < 4
                   THEN Goto("ss_wait_pak") /\ ss_i' = ss_i + 1
                   ELSE Return("False") /\ ss_i' = 0
                /\ UNCHANGED <<emm_i, fkey>>
    /\ UNCHANGED <<gen_vars, proc, run_vars, count_vars>>

\* if self.wait_for_prompt(self.main_menu_patterns, timeout=6): return True;
\* otherwise the next round, and return True after the fourth
start_system_wait_menu ==
    /\ pc = "ss_wait_menu"
    /\ \E o \in ExpectOutcomes :
        /\ Read(o)
        /\ IF o = "error" THEN Raise
           ELSE IF o = "match" THEN Return("True") /\ ss_i' = 0 /\ UNCHANGED <<emm_i, fkey>>
           ELSE /\ IF ss_i + 1 < 4
                   THEN Goto("ss_wait_pak") /\ ss_i' = ss_i + 1
                   ELSE Return("True") /\ ss_i' = 0
                /\ UNCHANGED <<emm_i, fkey>>
    /\ UNCHANGED <<gen_vars, proc, run_vars, count_vars>>

(* --------------------------- ensure_main_menu -------------------------- *)
\* if self.wait_for_prompt(self.main_menu_patterns, timeout=5): return True
ensure_main_menu_wait ==
    /\ pc = "emm_wait"
    /\ \E o \in ExpectOutcomes :
        /\ Read(o)
        /\ IF o = "error" THEN Raise
           ELSE IF o = "match" THEN Return("True") /\ emm_i' = 0 /\ UNCHANGED <<ss_i, fkey>>
           ELSE Goto("emm_press") /\ UNCHANGED loop_vars
    /\ UNCHANGED <<gen_vars, proc, run_vars, count_vars>>

\* mutant of ensure_main_menu_press: the check is repeated until it matches
ensure_main_menu_press_retrying ==
    /\ pc = "emm_press"
    /\ \E ok \in SendOutcomes : Sendline(<<>>, ok)
    /\ Goto("emm_wait")
    /\ UNCHANGED <<gen_vars, proc, run_vars, loop_vars, count_vars>>

\* mutant of ensure_main_menu_press: press_any_key without its try, so that a
\* failed write raises out of ensure_main_menu
ensure_main_menu_press_raising ==
    /\ pc = "emm_press"
    /\ \E ok \in SendOutcomes :
        /\ Sendline(<<>>, ok)
        /\ IF ~ok THEN Raise
           ELSE IF emm_i + 1 < 2
           THEN Goto("emm_wait") /\ emm_i' = emm_i + 1 /\ UNCHANGED <<ss_i, fkey>>
           ELSE Return("False") /\ emm_i' = 0 /\ UNCHANGED <<ss_i, fkey>>
    /\ UNCHANGED <<gen_vars, proc, run_vars, count_vars>>

\* self.press_any_key(), then the next round, and return False after the second
ensure_main_menu_press ==
    /\ pc = "emm_press"
    /\ \E ok \in SendOutcomes : Sendline(<<>>, ok)
    /\ IF emm_i + 1 < 2
       THEN Goto("emm_wait") /\ emm_i' = emm_i + 1
       ELSE Return("False") /\ emm_i' = 0
    /\ UNCHANGED <<gen_vars, proc, run_vars, ss_i, fkey, count_vars>>

(* --------------------------- add_user_complete ------------------------- *)
\* mutant of add_user_send_menu: the menu code is sent only if
\* ensure_main_menu returned True
add_user_send_menu_gated ==
    /\ pc = "add_send_menu"
    /\ IF rv = "True"
       THEN \E ok \in SendOutcomes : Sendline(<<"1">>, ok)
       ELSE UNCHANGED io_vars
    /\ GotoUsed("add_wait_header")
    /\ UNCHANGED <<gen_vars, proc, run_vars, loop_vars, count_vars>>

\* self.send_command('1', self.timings['menu']), whatever ensure_main_menu
\* returned
add_user_send_menu ==
    /\ pc = "add_send_menu"
    /\ \E ok \in SendOutcomes : Sendline(<<"1">>, ok)
    /\ GotoUsed("add_wait_header")
    /\ UNCHANGED <<gen_vars, proc, run_vars, loop_vars, count_vars>>

\* self.wait_for_prompt([name prompt, add-user header], timeout=8), result not
\* used; then the field loop starts
add_user_wait_header ==
    /\ pc = "add_wait_header"
    /\ \E o \in ExpectOutcomes : WaitThen(o, "add_wait_field", "add_wait_field")
    /\ UNCHANGED <<gen_vars, proc, run_vars, count_vars>>

\* mutant of add_user_wait_field: a field whose prompt is not detected is not
\* sent, the loop is left
add_user_wait_field_gated ==
    /\ pc = "add_wait_field"
    /\ \E o \in ExpectOutcomes :
        /\ Read(o)
        /\ IF o = "error" THEN Raise
           ELSE IF o = "match" THEN Goto("add_send_field") /\ UNCHANGED loop_vars
           ELSE Goto("add_wait_offer") /\ fkey' = 1 /\ UNCHANGED <<ss_i, emm_i>>
        /\ field_hit' = (field_hit \/ o = "match")
    /\ UNCHANGED <<gen_vars, proc, run_vars, add_calls, recoveries, started>>

\* if self.wait_for_prompt(patterns, timeout=8): ... else: ...
add_user_wait_field ==
    /\ pc = "add_wait_field"
    /\ \E o \in ExpectOutcomes :
        /\ WaitThen(o, "add_send_field", "add_send_field")
        /\ field_hit' = (field_hit \/ o = "match")
    /\ UNCHANGED <<gen_vars, proc, run_vars, add_calls, recoveries, started>>

\* mutant of add_user_send_field: send_command without its try, so that a
\* failed write raises out of add_user_complete
add_user_send_field_raising ==
    /\ pc = "add_send_field"
    /\ \E ok \in SendOutcomes :
        /\ Sendline(UserDict(seed, users[i])[FieldKeys[fkey]], ok)
        /\ IF ~ok THEN Raise
           ELSE IF fkey < Len(FieldKeys)
           THEN Goto("add_wait_field") /\ fkey' = fkey + 1 /\ UNCHANGED <<ss_i, emm_i>>
           ELSE Goto("add_wait_offer") /\ fkey' = 1 /\ UNCHANGED <<ss_i, emm_i>>
    /\ UNCHANGED <<gen_vars, proc, run_vars, count_vars>>

\* self.send_command(val) of either branch, then the next key of field_patterns
add_user_send_field ==
    /\ pc = "add_send_field"
    /\ \E ok \in SendOutcomes :
        Sendline(UserDict(seed, users[i])[FieldKeys[fkey]], ok)
    /\ IF fkey < Len(FieldKeys)
       THEN Goto("add_wait_field") /\ fkey' = fkey + 1
       ELSE Goto("add_wait_offer") /\ fkey' = 1
    /\ UNCHANGED <<gen_vars, proc, run_vars, ss_i, emm_i, count_vars>>

\* if self.wait_for_prompt([phone registration offer], timeout=8):
add_user_wait_offer ==
    /\ pc = "add_wait_offer"
    /\ \E o \in ExpectOutcomes : WaitThen(o, "add_send_affirm", "add_wait_pak")
    /\ UNCHANGED <<gen_vars, proc, run_vars, count_vars>>

\* self.send_command('1')
add_user_send_affirm ==
    /\ pc = "add_send_affirm"
    /\ \E ok \in SendOutcomes : Sendline(<<"1">>, ok)
    /\ Goto("add_wait_choice")
    /\ UNCHANGED <<gen_vars, proc, run_vars, loop_vars, count_vars>>

\* mutant of add_user_wait_choice: the choice is sent whether or not the
\* sub-choice prompt was detected
add_user_wait_choice_ungated ==
    /\ pc = "add_wait_choice"
    /\ \E o \in ExpectOutcomes : WaitThen(o, "add_send_random", "add_send_random")
    /\ UNCHANGED <<gen_vars, proc, run_vars, count_vars>>

\* if self.wait_for_prompt([manual input, random selection], timeout=6):
add_user_wait_choice ==
    /\ pc = "add_wait_choice"
    /\ \E o \in ExpectOutcomes : WaitThen(o, "add_send_random", "add_wait_pak")
    /\ UNCHANGED <<gen_vars, proc, run_vars, count_vars>>

\* self.send_command('2')
add_user_send_random ==
    /\ pc = "add_send_random"
    /\ \E ok \in SendOutcomes : Sendline(<<"2">>, ok)
    /\ Goto("add_wait_result")
    /\ UNCHANGED <<gen_vars, proc, run_vars, loop_vars, count_vars>>

\* self.wait_for_prompt([registered, assigned], timeout=10), result not used
add_user_wait_result ==
    /\ pc = "add_wait_result"
    /\ \E o \in ExpectOutcomes : WaitThen(o, "add_wait_pak", "add_wait_pak")
    /\ UNCHANGED <<gen_vars, proc, run_vars, count_vars>>

\* if self.wait_for_prompt([press any key], timeout=5): ...; return 1
add_user_wait_pak ==
    /\ pc = "add_wait_pak"
    /\ \E o \in ExpectOutcomes :
        /\ Read(o)
        /\ IF o = "error" THEN Raise
           ELSE IF o = "match" THEN Goto("add_press") /\ UNCHANGED loop_vars
           ELSE Return(1) /\ UNCHANGED loop_vars
    /\ UNCHANGED <<gen_vars, proc, run_vars, count_vars>>

\* self.press_any_key(); return 1
add_user_press ==
    /\ pc = "add_press"
    /\ \E ok \in SendOutcomes : Sendline(<<>>, ok)
    /\ Return(1)
    /\ UNCHANGED <<gen_vars, proc, run_vars, loop_vars, count_vars>>

(* ------------------------------ save_data ------------------------------ *)
\* self.send_command('8'), after ensure_main_menu whose result is not used
save_data_send ==
    /\ pc = "save_send"
    /\ \E ok \in SendOutcomes : Sendline(<<"8">>, ok)
    /\ GotoUsed("save_wait_ok")
    /\ UNCHANGED <<gen_vars, proc, run_vars, loop_vars, count_vars>>

\* if self.wait_for_prompt([saved], timeout=10): log only
save_data_wait_ok ==
    /\ pc = "save_wait_ok"
    /\ \E o \in ExpectOutcomes : WaitThen(o, "save_wait_pak", "save_wait_pak")
    /\ UNCHANGED <<gen_vars, proc, run_vars, count_vars>>

\* if self.wait_for_prompt([press any key], timeout=5): ...
save_data_wait_pak ==
    /\ pc = "save_wait_pak"
    /\ \E o \in ExpectOutcomes :
        /\ Read(o)
        /\ IF o = "error" THEN Raise
           ELSE IF o = "match" THEN Goto("save_press") /\ UNCHANGED loop_vars
           ELSE Return("None") /\ UNCHANGED loop_vars
    /\ UNCHANGED <<gen_vars, proc, run_vars, count_vars>>

\* self.press_any_key()
save_data_press ==
    /\ pc = "save_press"
    /\ \E ok \in SendOutcomes : Sendline(<<>>, ok)
    /\ Return("None")
    /\ UNCHANGED <<gen_vars, proc, run_vars, loop_vars, count_vars>>

(* ----------------------------- exit_system ----------------------------- *)
\* self.ensure_main_menu(), after self.save_data() returned
exit_system_ensure ==
    /\ pc = "exit_saved"
    /\ Call("emm_wait", "exit_send")
    /\ emm_i' = 0
    /\ UNCHANGED <<gen_vars, proc, run_vars, ss_i, fkey, io_vars, count_vars>>

\* mutant of exit_system_send: the save code is sent once more after the exit
\* code
exit_system_send_then_save ==
    /\ pc = "exit_send"
    /\ sent' = sent \o <<(<<"9">>), (<<"8">>)>>
    /\ consec_writes' = consec_writes + 2
    /\ GotoUsed("exit_wait")
    /\ UNCHANGED <<gen_vars, proc, run_vars, loop_vars, waits, unmatched, last_expect,
                   wfails, count_vars>>

\* self.send_command('9')
exit_system_send ==
    /\ pc = "exit_send"
    /\ \E ok \in SendOutcomes : Sendline(<<"9">>, ok)
    /\ GotoUsed("exit_wait")
    /\ UNCHANGED <<gen_vars, proc, run_vars, loop_vars, count_vars>>

\* self.wait_for_prompt([exited, thanks], timeout=8), result not used
exit_system_wait ==
    /\ pc = "exit_wait"
    /\ \E o \in ExpectOutcomes :
        /\ Read(o)
        /\ IF o = "error" THEN Raise ELSE Return("None") /\ UNCHANGED loop_vars
    /\ UNCHANGED <<gen_vars, proc, run_vars, count_vars>>

(* ------------------------- run_complete_workflow ----------------------- *)
\* mutant of run_after_start: the value of start_system is not looked at
run_after_start_ignoring ==
    /\ pc = "run_started"
    /\ CallGetUsers(user_count)
    /\ users' = get_users(pre_generated_users, index, user_count).users
    /\ success' = 0
    /\ GotoUsed("run_loop")
    /\ started' = rv
    /\ UNCHANGED <<proc, user_count, i, result, loop_vars, io_vars, add_calls, recoveries,
                   field_hit>>

\* if not self.start_system(): return False,0
\* users = self.user_gen.get_users(user_count); success = 0
run_after_start ==
    /\ pc = "run_started"
    /\ IF rv = "False"
       THEN /\ result' = <<FALSE, 0>>
            /\ GotoUsed("done")
            /\ UNCHANGED <<gen_vars, users, success>>
       ELSE /\ CallGetUsers(user_count)
            /\ users' = get_users(pre_generated_users, index, user_count).users
            /\ success' = 0
            /\ GotoUsed("run_loop")
            /\ UNCHANGED result
    /\ started' = rv
    /\ UNCHANGED <<proc, user_count, i, loop_vars, io_vars, add_calls, recoveries,
                   field_hit>>

\* for i,u in enumerate(users,1): try: ... self.add_user_complete(u), whose
\* first statement calls ensure_main_menu
run_next_user ==
    /\ pc = "run_loop"
    /\ i < Len(users)
    /\ i' = i + 1
    /\ add_calls' = add_calls + 1
    /\ pc' = "emm_wait"
    /\ stack' = <<"run_add_ret", "add_send_menu">>
    /\ emm_i' = 0
    /\ sent' = <<>>
    /\ waits' = 0
    /\ wfails' = [wfails EXCEPT !.pos = 0]
    /\ UNCHANGED <<gen_vars, proc, rv, user_count, users, success, result, ss_i, fkey,
                   consec_writes, unmatched, last_expect, recoveries, field_hit, started>>

\* mutant of run_add_returned: a record counts only if one of its field
\* prompts was detected
run_add_returned_if_detected ==
    /\ pc = "run_add_ret"
    /\ success' = (IF field_hit THEN success + rv ELSE success)
    /\ GotoUsed("run_loop")
    /\ field_hit' = FALSE
    /\ UNCHANGED <<gen_vars, proc, user_count, users, i, result, loop_vars, io_vars,
                   add_calls, recoveries, started>>

\* success += self.add_user_complete(u)
run_add_returned ==
    /\ pc = "run_add_ret"
    /\ success' = success + rv
    /\ GotoUsed("run_loop")
    /\ field_hit' = FALSE
    /\ UNCHANGED <<gen_vars, proc, user_count, users, i, result, loop_vars, io_vars,
                   add_calls, recoveries, started>>

\* mutant of run_except: the except clause ends the batch
run_except_abort ==
    /\ pc = "run_except"
    /\ \E ok \in SendOutcomes : Sendline(<<>>, ok)
    /\ recoveries' = recoveries + 1
    /\ i' = Len(users)
    /\ Goto("run_loop")
    /\ field_hit' = FALSE
    /\ UNCHANGED <<gen_vars, proc, user_count, users, success, result, loop_vars,
                   add_calls, started>>

\* except Exception as e: log; self.press_any_key()
run_except ==
    /\ pc = "run_except"
    /\ \E ok \in SendOutcomes : Sendline(<<>>, ok)
    /\ recoveries' = recoveries + 1
    /\ Goto("run_loop")
    /\ field_hit' = FALSE
    /\ UNCHANGED <<gen_vars, proc, run_vars, loop_vars, add_calls, started>>

\* self.save_data() after the loop; its first statement calls ensure_main_menu
run_save ==
    /\ pc = "run_loop"
    /\ i >= Len(users)
    /\ pc' = "emm_wait"
    /\ stack' = <<"run_saved", "save_send">>
    /\ emm_i' = 0
    /\ sent' = <<>>
    /\ waits' = 0
    /\ wfails' = [wfails EXCEPT !.pos = 0]
    /\ UNCHANGED <<gen_vars, proc, rv, run_vars, ss_i, fkey,
                   consec_writes, unmatched, last_expect, count_vars>>

\* mutant of run_exit: exit_system without its save_data
run_exit_without_save ==
    /\ pc = "run_saved"
    /\ pc' = "emm_wait"
    /\ stack' = <<"run_exited", "exit_send">>
    /\ emm_i' = 0
    /\ UNCHANGED <<gen_vars, proc, rv, run_vars, ss_i, fkey, io_vars, count_vars>>

\* self.exit_system(), whose first statement calls save_data, whose first
\* statement calls ensure_main_menu
run_exit ==
    /\ pc = "run_saved"
    /\ pc' = "emm_wait"
    /\ stack' = <<"run_exited", "exit_saved", "save_send">>
    /\ emm_i' = 0
    /\ UNCHANGED <<gen_vars, proc, rv, run_vars, ss_i, fkey, io_vars, count_vars>>

\* return True,success
run_return ==
    /\ pc = "run_exited"
    /\ result' = <<TRUE, success>>
    /\ Goto("done")
    /\ UNCHANGED <<gen_vars, proc, user_count, users, i, success, loop_vars, io_vars,
                   count_vars>>

Next ==
    \/ start_system_spawn
    \/ start_system_wait_init
    \/ start_system_wait_pak
    \/ start_system_press
    \/ start_system_wait_menu
    \/ ensure_main_menu_wait
    \/ ensure_main_menu_press
    \/ add_user_send_menu
    \/ add_user_wait_header
    \/ add_user_wait_field
    \/ add_user_send_field
    \/ add_user_wait_offer
    \/ add_user_send_affirm
    \/ add_user_wait_choice
    \/ add_user_send_random
    \/ add_user_wait_result
    \/ add_user_wait_pak
    \/ add_user_press
    \/ save_data_send
    \/ save_data_wait_ok
    \/ save_data_wait_pak
    \/ save_data_press
    \/ exit_system_ensure
    \/ exit_system_send
    \/ exit_system_wait
    \/ run_after_start
    \/ run_next_user
    \/ run_add_returned
    \/ run_except
    \/ run_save
    \/ run_exit
    \/ run_return

\* run_complete_workflow, every outcome of the child allowed
Spec == Init /\ [][Next]_vars

\* the statements of run_complete_workflow and of the methods it calls, and
\* the two ways it ends
Labels == {"run_start", "ss_wait_init", "ss_wait_pak", "ss_press", "ss_wait_menu",
           "run_started", "run_loop", "emm_wait", "emm_press",
           "add_send_menu", "add_wait_header", "add_wait_field", "add_send_field",
           "add_wait_offer", "add_send_affirm", "add_wait_choice", "add_send_random",
           "add_wait_result", "add_wait_pak", "add_press", "run_add_ret", "run_except",
           "save_send", "save_wait_ok", "save_wait_pak", "save_press",
           "run_saved", "exit_saved", "exit_send", "exit_wait", "run_exited",
           "done", "raised"}

\* the program leaves the statement it is at (every step of Next does, and
\* some step of Next can be taken at every statement but "done" and "raised")
Advance == pc \notin {"done", "raised"} /\ pc' \in Labels /\ pc' # pc

\* run_complete_workflow as a sequential program: every call of expect ends
\* (with a match, at its timeout, or with an exception) and every other
\* statement ends, so the program always leaves the statement it is at
SpecFair == Init /\ [][Next]_vars /\ WF_pc(Advance)

\* the generator alone, called again and again
NextGen == GenGet

SpecGen == Init /\ [][NextGen]_vars

(* ------------------- the generation of single records ------------------ *)
\* the dates on which the generator is taken to run: a day of this year, a
\* leap day, a day early in January and the last day of a year
GenerationDates == { <<2026, 11, 1>>, <<2024, 2, 29>>, <<2025, 1, 3>>, <<2000, 12, 31>> }

\* the values of random.randint(0,999) that are tried
SeqDraws == {0, 58, 999}

\* the draws of _generate_valid_user outside of _generate_valid_id and age that
\* are tried: those of the first MaxDrawIx + 1 records of the pool
MaxDrawIx == 3

\* a generator on the day today, its random state being the first one, and
\* nothing generated yet
InitId ==
    /\ seed = 0
    /\ pre_generated_users = NewPool
    /\ index = 0
    /\ served = 0
    /\ last_get = <<>>
    /\ last_n = 0
    /\ AutomationInit
    /\ user_count = 0
    /\ today \in GenerationDates
    /\ made_id = <<>>
    /\ made_user = <<>>

\* one call self._generate_valid_id() on the date today
call_generate_valid_id ==
    /\ made_id = <<>>
    /\ \E area \in 1..Len(area_codes),
          year \in min_birth_year(today)..max_birth_year(today),
          month \in 1..12, day \in 1..28, seq \in SeqDraws :
          made_id' = _generate_valid_id([area |-> area, year |-> year, month |-> month,
                                         day |-> day, seq |-> seq])
    /\ made_user' = <<>>
    /\ UNCHANGED <<seed, pre_generated_users, index, served, last_get, last_n, today>>
    /\ UNCHANGED <<proc, pc, stack, rv, run_vars, loop_vars, io_vars, count_vars>>

\* one call self._generate_valid_user() on the date today, the call of
\* _generate_valid_id it makes included; of the birth date the first and the
\* last value of each draw are tried
call_generate_valid_user ==
    /\ made_id = <<>>
    /\ \E k \in 0..MaxDrawIx, age \in 18..60,
          year \in {min_birth_year(today), max_birth_year(today)},
          month \in {1, 12}, day \in {1, 28} :
          made_user' = _generate_valid_user([Draws(seed, k) EXCEPT
                                                !.age = age, !.year = year,
                                                !.month = month, !.day = day])
    /\ made_id' = made_user'.id_card
    /\ UNCHANGED <<seed, pre_generated_users, index, served, last_get, last_n, today>>
    /\ UNCHANGED <<proc, pc, stack, rv, run_vars, loop_vars, io_vars, count_vars>>

NextId ==
    \/ call_generate_valid_id
    \/ call_generate_valid_user

\* one call of one of the generator's two record-making methods, on any of the
\* dates and with any of the draws
SpecId == InitId /\ [][NextId]_vars

(* ============================ properties =============================== *)
Blank == <<>>
L1 == <<"1">>
L2 == <<"2">>
L8 == <<"8">>
L9 == <<"9">>

\* the six values of record u in the order of field_patterns
Fields(u) == [k \in 1..Len(FieldKeys) |-> UserDict(seed, u)[FieldKeys[k]]]

\* how many lines of w are line
Count(w, line) == Cardinality({p \in 1..Len(w) : w[p] = line})

RECURSIVE DropBlanks(_)
\* w without the blank lines it starts with
DropBlanks(w) == IF w # <<>> /\ Head(w) = Blank THEN DropBlanks(Tail(w)) ELSE w

\* start_system is running or has just returned
InBoot == \/ pc \in {"run_start", "run_started"}
          \/ stack # <<>> /\ stack[1] = "run_started"

\* run_complete_workflow has ended: it returned, or an exception left it
Ended == pc \in {"done", "raised"}

\* the child was started, answered every expect and took every write
Clean == proc = "open" /\ ~unmatched /\ wfails.n = "none"

\* what a record's add_user_complete sends when every prompt is answered
FullRecord(u) == <<L1>> \o Fields(u) \o <<L1, L2, Blank>>

(* ---- C1 ---- *)
\* C1 as claimed: batch size 3, every prompt answered and every write taken:
\* run returns (True, 3), each of the 3 records gets one menu code "1" followed
\* by its 6 field values, and exactly one "8" and exactly one "9" are sent.
C1_AsClaimed ==
    /\ (pc = "run_add_ret" /\ Clean /\ user_count = 3)
          => /\ Count(sent, L1) >= 1
             /\ SubSeq(sent, 1, 7) = <<L1>> \o Fields(users[i])
    /\ (pc = "done" /\ Clean /\ user_count = 3)
          => /\ result = <<TRUE, 3>>
             /\ add_calls = 3
             /\ Count(sent, L8) = 1
             /\ Count(sent, L9) = 1

\* C1 amended: batch size 3, every prompt answered and every write taken: run
\* returns (True, 3); start_system sends blank lines only; each of the 3 calls
\* of add_user_complete sends exactly "1", the 6 field values of its record,
\* "1", "2" and a blank line; and after the loop exactly "8", blank, "8",
\* blank, "9" are sent: the save code goes out twice, once by save_data after
\* the loop and once by the save_data inside exit_system, the exit code once.
C1_EndToEnd ==
    /\ InBoot => \A p \in 1..Len(sent) : sent[p] = Blank
    /\ (pc = "run_add_ret" /\ Clean /\ user_count = 3)
          => /\ sent = FullRecord(users[i])
             /\ add_calls = i
             /\ success = i - 1
             /\ rv = 1
    /\ (pc = "done" /\ Clean /\ user_count = 3)
          => /\ result = <<TRUE, 3>>
             /\ add_calls = 3
             /\ sent = <<L8, Blank, L8, Blank, L9>>

C1_Witness ==
    /\ pc = "done" /\ Clean /\ user_count = 3
    /\ result = <<TRUE, 3>>

(* ---- C2 ---- *)
\* batch size 5, every prompt answered, and exactly one write failed, made by
\* the add_user_complete of record 3
OneWriteFailedInRecord3 ==
    /\ proc = "open" /\ ~unmatched /\ user_count = 5
    /\ wfails.n = "one" /\ wfails.rec = 3

\* C2 as claimed: in that run success_count is 4 and exactly one recovery
\* keypress is sent, right after the failing write and before anything else.
C2_AsClaimed ==
    /\ (pc = "run_loop" /\ i = 3 /\ OneWriteFailedInRecord3)
          => /\ recoveries = 1
             /\ Len(sent) = wfails.pos + 1
             /\ sent[wfails.pos + 1] = Blank
    /\ (pc = "done" /\ OneWriteFailedInRecord3)
          => /\ result = <<TRUE, 4>>
             /\ recoveries = 1

\* C2 amended: in that run the failure is absorbed where the write is made:
\* record 3's add_user_complete still sends its whole sequence and returns 1,
\* the except clause of the loop never runs (no recovery keypress), and run
\* returns success_count = 5.
C2_WriteFailureAbsorbed ==
    /\ (pc = "run_add_ret" /\ i = 3 /\ OneWriteFailedInRecord3)
          => /\ sent = FullRecord(users[3])
             /\ rv = 1
             /\ recoveries = 0
    /\ (pc = "done" /\ OneWriteFailedInRecord3)
          => /\ result = <<TRUE, 5>>
             /\ recoveries = 0

\* record 3 has returned after the write of one of its field values failed
C2_Witness ==
    /\ pc = "run_add_ret" /\ i = 3 /\ OneWriteFailedInRecord3
    /\ wfails.pos \in 2..7

(* ---- C3 ---- *)
C3_Counts ==
    /\ pc = "run_loop" => add_calls = i /\ success + recoveries = i
    /\ pc \in {"run_add_ret", "run_except"}
          => add_calls = i /\ success + recoveries = i - 1
    /\ (Ended /\ started = "True") => add_calls = user_count

C3_Handler ==
    pc = "run_except"
       => /\ pc' = "run_loop"
          /\ sent' = Append(sent, Blank)
          /\ recoveries' = recoveries + 1
          /\ success' = success
          /\ i' = i /\ users' = users

\* C3: per-record failure isolation.  An exception that leaves
\* add_user_complete for record i is caught by the loop, which sends exactly
\* one blank line, leaves success as it is and goes on with the loop; every
\* record is either counted or recovered; and add_user_complete is called
\* exactly user_count times in every run whose start_system returned True.
C3_FailureIsolation == []C3_Counts /\ [][C3_Handler]_vars

\* the last of 3 records returns after exactly one earlier record raised
C3_Witness ==
    /\ pc = "run_add_ret" /\ user_count = 3 /\ i = 3
    /\ recoveries = 1 /\ success = 1

(* ---- C4 ---- *)
\* what may follow the field values: the phone registration lines and the
\* final acknowledgement, each present or not
AfterFields == { <<>>, <<Blank>>, <<L1>>, <<L1, Blank>>, <<L1, L2>>, <<L1, L2, Blank>> }

\* C4: whenever add_user_complete returns, whatever each expect gave (match or
\* timeout), it has sent, after at most 2 blank lines of ensure_main_menu, the
\* menu code "1" and then the six field values name, gender, age, id_card,
\* job, address in this order, each exactly once, and it returns 1 (the record
\* is counted).
C4_FieldsAlwaysSent ==
    pc = "run_add_ret"
       => LET w == DropBlanks(sent)
          IN  /\ Len(sent) - Len(w) <= 2
              /\ Len(w) >= 7
              /\ SubSeq(w, 1, 7) = <<L1>> \o Fields(users[i])
              /\ SubSeq(w, 8, Len(w)) \in AfterFields
              /\ rv = 1

\* a record returns although none of its six field prompts was detected
C4_Witness ==
    /\ pc = "run_add_ret" /\ ~field_hit /\ rv = 1

(* ---- C5 ---- *)
\* C5 as claimed: every run whose start_system returned True ends by returning
\* (True, success) after "8" and then "9" were sent, whatever the expects and
\* writes did.
C5_AsClaimed ==
    (Ended /\ started = "True")
       => /\ pc = "done"
          /\ result = <<TRUE, success>>
          /\ \E p, q \in 1..Len(sent) : p < q /\ sent[p] = L8 /\ sent[q] = L9

(* ---- C6 ---- *)
\* C6: a failed boot aborts at once.  start_system returns False when spawn
\* raised or an expect of the boot raised; then run returns (False, 0), the
\* generator was never asked (index still 0, nothing served), add_user_complete
\* was never called and none of "1", "8", "9" was sent.
C6_BootFailureAborts ==
    /\ (pc = "run_started" /\ (proc = "None" \/ last_expect = "error")) => rv = "False"
    /\ (started = "False") => (pc = "done" /\ result = <<FALSE, 0>>)
    /\ (started = "False" \/ (pc = "run_started" /\ rv = "False"))
          => /\ index = 0 /\ served = 0 /\ users = <<>>
             /\ add_calls = 0
             /\ \A p \in 1..Len(sent) : sent[p] \notin {L1, L8, L9}

\* run has returned (False, 0) after an expect of the boot raised, the child
\* running and a blank line already sent
C6_Witness ==
    /\ pc = "done" /\ started = "False" /\ result = <<FALSE, 0>>
    /\ proc = "open" /\ last_expect = "error" /\ sent # <<>>

(* ---- C7 ---- *)
\* C7 as claimed: when run has ended, on whatever path, no spawned child is
\* left open.
C7_AsClaimed == Ended => proc # "open"

(* ---- C8 ---- *)
\* C8 as claimed: no two lines are written to the child without an expect
\* between them.
C8_AsClaimed == consec_writes <= 1

(* ---- C9 ---- *)
\* C9 as claimed: whenever add_user_complete returns having sent the
\* affirmative "1" of the phone registration, it has sent the choice "2" right
\* after it, whether or not the sub-choice prompt was detected.
C9_AsClaimed ==
    pc = "run_add_ret"
       => LET w == DropBlanks(sent)
              t == SubSeq(w, 8, Len(w))
          IN  (t # <<>> /\ t[1] = L1) => (Len(t) >= 2 /\ t[2] = L2)

C9_Step ==
    /\ (pc = "add_wait_offer" /\ last_expect' = "match") => pc' = "add_send_affirm"
    /\ pc = "add_send_affirm" => (sent' = Append(sent, L1) /\ pc' = "add_wait_choice")
    /\ (pc = "add_wait_choice" /\ last_expect' = "match") => pc' = "add_send_random"
    /\ (pc = "add_wait_choice" /\ last_expect' = "timeout")
          => (pc' = "add_wait_pak" /\ sent' = sent)
    /\ pc = "add_send_random" => (sent' = Append(sent, L2) /\ pc' = "add_wait_result")

\* C9 amended: when the phone registration offer is detected the controller
\* sends "1" and waits for the sub-choice prompt; it sends "2" (and then waits
\* for the completion signal) only if that wait matched; when that wait times
\* out it sends nothing and goes on to the final press-any-key wait.
C9_ChoiceOnlyIfDetected == [][C9_Step]_vars

\* the affirmative "1" was the last line sent and the sub-choice wait timed out
C9_Witness ==
    /\ pc = "add_wait_pak" /\ last_expect = "timeout"
    /\ sent # <<>> /\ sent[Len(sent)] = L1 /\ Len(DropBlanks(sent)) = 8

(* ---- C10 ---- *)
\* C10: pool cycling.  After any sequence of get_users calls the pool is the
\* list built at construction, the index is in 0..499 and equals the number of
\* records served so far modulo 500, and the latest call returned exactly n
\* records, the j-th of them being the pool record at (number of the record
\* among all served, from 0) mod 500.
C10_PoolCycling ==
    /\ pre_generated_users = NewPool
    /\ Len(pre_generated_users) = PoolSize
    /\ index \in 0..(PoolSize - 1)
    /\ index = served % PoolSize
    /\ Len(last_get) = last_n
    /\ \A j \in 1..Len(last_get) :
          last_get[j] =
             pre_generated_users[((served - Len(last_get) + j - 1) % PoolSize) + 1]

\* a call that wraps: it returned the last record of the pool and then the
\* first two, the pool having been served twice over
C10_Witness ==
    /\ served > 2 * PoolSize
    /\ last_get = <<pre_generated_users[PoolSize], pre_generated_users[1],
                    pre_generated_users[2]>>

(* ---- C11 ---- *)
\* the statements that are calls of wait_for_prompt
WaitPcs == {"ss_wait_init", "ss_wait_pak", "ss_wait_menu", "emm_wait",
            "add_wait_header", "add_wait_field", "add_wait_offer", "add_wait_choice",
            "add_wait_result", "add_wait_pak", "save_wait_ok", "save_wait_pak",
            "exit_wait"}

C11_Step ==
    pc \in WaitPcs
       => /\ consec_writes' = 0
          /\ sent' = sent
          /\ ~(\/ pc' \in {"run_except", "raised"}
               \/ pc' = "run_started" /\ rv' = "False")

RECURSIVE IntOfStr(_)
\* int(s) for a string of decimal digits
IntOfStr(s) == IF s = <<>> THEN 0
               ELSE 10 * IntOfStr(SubSeq(s, 1, Len(s) - 1)) + IntOf(s[Len(s)])

\* the age in completed years on the date now of somebody born on y-m-d
AgeOn(now, y, m, d) ==
    now[1] - y - (IF m > now[2] \/ (m = now[2] /\ d > now[3]) THEN 1 ELSE 0)

\* the age on the date today that characters 7..14 of id encode
EncodedAge(id) ==
    AgeOn(today, IntOfStr(SubSeq(id, 7, 10)), IntOfStr(SubSeq(id, 11, 12)),
          IntOfStr(SubSeq(id, 13, 14)))

\* C12 as claimed: every generated record has an age field in 18..60, and the
\* birth date in characters 7..14 of every generated id_number gives an age
\* in completed years on the generation date that is at least 18 and less
\* than 60.
C12_AsClaimed ==
    /\ made_user # <<>> => IntOfStr(made_user.age) \in 18..60
    /\ made_id # <<>> => (EncodedAge(made_id) >= 18 /\ EncodedAge(made_id) < 60)

(* ---- C13 ---- *)
C13_WEIGHT == <<7, 9, 10, 5, 8, 4, 2, 1, 6, 3, 7, 9, 10, 5, 8, 4, 2>>
C13_CHECK == <<"1", "0", "X", "9", "8", "7", "6", "5", "4", "3", "2">>
C13_Regions == { <<"1","1","0","1","0","1">>, <<"3","1","0","1","0","4">>,
                 <<"4","4","0","1","0","3">>, <<"4","4","0","1","0","4">> }
C13_Digits == {"0", "1", "2", "3", "4", "5", "6", "7", "8", "9"}

\* the value of a decimal digit character
C13_Value == "0" :> 0 @@ "1" :> 1 @@ "2" :> 2 @@ "3" :> 3 @@ "4" :> 4 @@
             "5" :> 5 @@ "6" :> 6 @@ "7" :> 7 @@ "8" :> 8 @@ "9" :> 9

\* digit[0]*WEIGHT[0] + ... + digit[16]*WEIGHT[16]
C13_Sum(id) ==
    LET t(k) == C13_Value[id[k]] * C13_WEIGHT[k]
    IN  t(1) + t(2) + t(3) + t(4) + t(5) + t(6) + t(7) + t(8) + t(9) + t(10)
        + t(11) + t(12) + t(13) + t(14) + t(15) + t(16) + t(17)

C13_WellFormed(id) ==
    /\ Len(id) = 18
    /\ \A p \in 1..17 : id[p] \in C13_Digits
    /\ SubSeq(id, 1, 6) \in C13_Regions
    /\ 10 * C13_Value[id[11]] + C13_Value[id[12]] \in 1..12
    /\ 10 * C13_Value[id[13]] + C13_Value[id[14]] \in 1..28
    /\ id[18] = C13_CHECK[(C13_Sum(id) % 11) + 1]
    /\ (C13_Sum(id) % 11 = 2) => id[18] = "X"

\* C13: every identifier _generate_valid_id returns, also the one inside a
\* generated record, has exactly 18 characters: 17 decimal digits (one of the
\* four 6-digit region codes, 8 digits of date, 3 digits of sequence) and then
\* the check character CHECK[(sum of digit[i]*WEIGHT[i], i = 0..16) mod 11],
\* which is "X" for remainder 2.
C13_CheckCharacter ==
    /\ made_id # <<>> => C13_WellFormed(made_id)
    /\ made_user # <<>> => C13_WellFormed(made_user.id_card)

\* an identifier with sequence "058" whose remainder is 2, so that it ends in X
C13_Witness ==
    /\ made_id # <<>>
    /\ C13_Sum(made_id) % 11 = 2
    /\ made_id[18] = "X"
    /\ SubSeq(made_id, 15, 17) = <<"0", "5", "8">>

(* ---- C14 ---- *)
\* the outcome of the step's expect, when the step is a wait
Matched == last_expect' = "match"
TimedOut == last_expect' = "timeout"

C14_Bounds ==
    /\ InBoot
          => /\ \A p \in 1..Len(sent) : sent[p] = Blank
             /\ Len(sent) <= 4
             /\ waits <= 9
             /\ ss_i \in 0..3
    /\ (pc = "run_started" /\ rv = "False")
          => (proc = "None" \/ last_expect = "error")
    /\ (pc = "run_started" /\ rv = "True")
          => (last_expect = "match" \/ (last_expect = "timeout" /\ waits = 9))

C14_Step ==
    /\ (pc = "run_start" /\ proc' = "open") => (pc' = "ss_wait_init" /\ ss_i' = 0)
    /\ (pc = "ss_wait_init" /\ (Matched \/ TimedOut))
          => (pc' = "ss_wait_pak" /\ waits' = 1 /\ sent' = sent)
    /\ (pc = "ss_wait_pak" /\ Matched) => (pc' = "ss_press" /\ sent' = sent)
    /\ (pc = "ss_wait_pak" /\ TimedOut) => (pc' = "ss_wait_menu" /\ sent' = sent)
    /\ pc = "ss_press"
          => (last_expect = "match" /\ sent' = Append(sent, Blank) /\ pc' = "ss_wait_menu")
    /\ (pc = "ss_wait_menu" /\ Matched) => (pc' = "run_started" /\ rv' = "True")
    /\ (pc = "ss_wait_menu" /\ TimedOut)
          => IF ss_i < 3 THEN pc' = "ss_wait_pak" /\ ss_i' = ss_i + 1 /\ sent' = sent
             ELSE pc' = "run_started" /\ rv' = "True"
    /\ (InBoot /\ sent' # sent) => pc = "ss_press"

\* C14: booting.  After the spawn start_system waits once for the init banner
\* and goes on whether or not it matched; then come at most 4 rounds; a round
\* sends a blank line only if its press-any-key wait matched, and makes the
\* main-menu check in either case; start_system returns True at the first
\* main-menu check that matches and also after the fourth round ended without
\* one; so the boot sends at most 4 lines, all blank, makes at most 9 waits,
\* and returns False only when spawn or an expect raised.
C14_Booting == []C14_Bounds /\ [][C14_Step]_vars

\* start_system has returned True after 4 rounds in which every press-any-key
\* wait matched and no main-menu check did
C14_Witness ==
    /\ pc = "run_started" /\ rv = "True"
    /\ last_expect = "timeout" /\ waits = 9
    /\ sent = <<Blank, Blank, Blank, Blank>>

(* ---- C15 ---- *)
\* the statements that send a menu code after ensure_main_menu, and the code
CommandPcs == {"add_send_menu", "save_send", "exit_send"}
CommandOf(l) == IF l = "add_send_menu" THEN L1 ELSE IF l = "save_send" THEN L8 ELSE L9

C15_Returned ==
    /\ emm_i \in 0..1
    /\ pc \in CommandPcs
          => /\ rv \in {"True", "False"}
             /\ rv = "True" <=> last_expect = "match"
    \* the calls that begin with sent empty: the whole invocation is in view
    /\ (pc \in {"add_send_menu", "save_send"} /\ stack[1] # "run_exited")
          => /\ sent \in {<<>>, <<Blank>>, <<Blank, Blank>>}
             /\ waits = Len(sent) + (IF rv = "True" THEN 1 ELSE 0)
             /\ waits \in 1..2

C15_Step ==
    /\ (pc' \in CommandPcs /\ pc' # pc) => pc \in {"emm_wait", "emm_press"}
    /\ (pc = "emm_wait" /\ Matched)
          => (pc' = stack[Len(stack)] /\ pc' \in CommandPcs /\ rv' = "True" /\ sent' = sent)
    /\ (pc = "emm_wait" /\ TimedOut) => (pc' = "emm_press" /\ sent' = sent)
    /\ pc = "emm_press"
          => /\ last_expect = "timeout"
             /\ sent' = Append(sent, Blank)
             /\ IF emm_i < 1 THEN pc' = "emm_wait" /\ emm_i' = emm_i + 1
                ELSE pc' = stack[Len(stack)] /\ pc' \in CommandPcs /\ rv' = "False"
    /\ pc \in CommandPcs => sent' = Append(sent, CommandOf(pc))

\* C15: ensure_main_menu runs right before every send of a record's menu code
\* "1", of the save code "8" and of the exit code "9"; it makes at most 2
\* main-menu checks, sends one blank line after each check that failed and
\* none after one that matched (so at most 2), returns True exactly when a
\* check matched, and the caller sends its code whether it got True or False.
C15_EnsureMainMenu == []C15_Returned /\ [][C15_Step]_vars

\* a record's menu code was sent after ensure_main_menu made 2 checks, sent 2
\* blank lines and returned False
C15_Witness ==
    /\ pc = "add_wait_header" /\ waits = 2
    /\ sent = <<Blank, Blank, L1>>

(* ---- C16 ---- *)
\* the statements that are calls of send_command or press_any_key
SendPcs == {"ss_press", "emm_press", "add_send_menu", "add_send_field",
            "add_send_affirm", "add_send_random", "add_press", "save_send",
            "save_press", "exit_send", "run_except"}

\* the step's write failed
WriteFailed == wfails' # wfails

C16_Step ==
    /\ pc \in SendPcs => Len(sent') = Len(sent) + 1
    /\ (pc \in SendPcs /\ WriteFailed)
          => /\ pc' \notin {"run_except", "raised"}
             /\ ~(pc' = "run_started" /\ rv' = "False")
             /\ waits' = waits
             /\ recoveries' = (IF pc = "run_except" THEN recoveries + 1 ELSE recoveries)
    /\ (pc = "add_send_field" /\ WriteFailed)
          => IF fkey < 6 THEN pc' = "add_wait_field" /\ fkey' = fkey + 1
             ELSE pc' = "add_wait_offer"

C16_Continued ==
    \* a record during which exactly one write failed, a field value
    (/\ pc = "run_add_ret"
     /\ wfails.n = "one" /\ wfails.rec = i
     /\ sent[wfails.pos] \notin {Blank, L1, L2})
        => LET k == CHOOSE k \in 1..6 : sent[wfails.pos] = Fields(users[i])[k]
           IN  /\ SubSeq(sent, wfails.pos, wfails.pos + 6 - k)
                     = SubSeq(Fields(users[i]), k, 6)
               /\ rv = 1

\* C16: a failed write of send_command or press_any_key goes no further: the
\* line counts as attempted, no exception leaves the send (control goes on to
\* the statement after it, never to an except clause of a caller), and the
\* record goes on: after a failed write of field k the fields k+1..6 are
\* still attempted, in order, and add_user_complete returns 1.
C16_SendFailureAbsorbed == []C16_Continued /\ [][C16_Step]_vars

\* a record has returned whose first field value (the name) failed to be
\* written, every later line of the record having been sent
C16_Witness ==
    /\ pc = "run_add_ret" /\ rv = 1
    /\ wfails.n = "one" /\ wfails.rec = i /\ wfails.pos = 2
    /\ sent = FullRecord(users[i])

(* ---- C17 ---- *)
\* the final save and exit are running or have run
InFinal == \/ pc \in {"run_saved", "run_exited"}
           \/ stack # <<>> /\ stack[1] \in {"run_saved", "run_exited"}

\* the most waits, and the most lines sent, of the part of the run that is in
\* progress: the boot (1 + 4*2 waits, 4 blank lines), the final save and exit
\* (2 * (2 + 2) + 2 + 1 waits, 2 * (2 + 2) + 2 + 1 lines) or else one record
\* (2 + 1 + 6 + 3 + 1 waits, 2 + 1 + 6 + 2 + 1 lines)
MostWaits == IF InBoot THEN 9 ELSE IF InFinal THEN 11 ELSE 13
MostSends == IF InBoot THEN 4 ELSE IF InFinal THEN 11 ELSE 12

C17_Bounded ==
    /\ waits <= MostWaits
    /\ Len(sent) <= MostSends
    /\ ss_i \in 0..3 /\ emm_i \in 0..1 /\ fkey \in 1..6
    /\ add_calls = i /\ i <= user_count

C17_Step ==
    (pc \in WaitPcs /\ TimedOut)
       => /\ pc' \notin {"run_except", "raised"}
          /\ ~(pc' = "run_started" /\ rv' = "False")

\* C17: termination.  For every batch size and every outcome of every wait
\* that is a match or a timeout (and every outcome of every write), run
\* reaches its end and returns; the boot makes at most 9 waits and 4 sends,
\* each of the n records at most 13 waits and 12 sends, the final save and
\* exit at most 11 waits and 11 sends; and a timeout never sends control to an
\* except clause or out of run.
C17_Termination ==
    /\ []C17_Bounded
    /\ [][C17_Step]_vars
    /\ <>(pc = "done" \/ last_expect = "error")

\* a run of 2 records has returned after a final save and exit in which every
\* wait timed out: 11 waits, 11 lines
C17_Witness ==
    /\ pc = "done" /\ user_count = 2 /\ result = <<TRUE, 2>>
    /\ last_expect = "timeout"
    /\ waits = 11 /\ Len(sent) = 11

(* ---- C18 ---- *)
\* the calls of add_user_complete that have returned (a call that has not yet
\* returned or raised is running when the stack is that of the batch loop;
\* at "run_add_ret" it has returned and at "run_except" it has raised)
AddRunning == InAddOf # 0 \/ pc = "run_except"
AddReturned == add_calls - recoveries - (IF AddRunning THEN 1 ELSE 0)

C18_Counter ==
    /\ success \in 0..i
    /\ pc # "run_add_ret" => success = AddReturned
    /\ pc = "run_add_ret" => (rv = 1 /\ success + 1 = AddReturned)
    /\ (pc = "done" /\ started = "True")
          => /\ result = <<TRUE, success>>
             /\ result[2] = user_count - recoveries

C18_Step ==
    /\ success' >= success
    /\ pc = "run_add_ret" => success' = success + 1
    /\ pc # "run_add_ret" => success' = success

\* C18: the success counter is 0 when the loop starts, never decreases, grows by
\* exactly 1 when a call of add_user_complete returns and not at all when one
\* raises or at any other step; it always lies in 0..i, i being the number of
\* records begun, and equals the number of calls that returned; the pair run
\* returns carries that number, whatever the prompts and the writes did.
C18_SuccessCounter == []C18_Counter /\ [][C18_Step]_vars

\* run on 3 records has returned (True, 2): one call raised, and among the
\* others prompts were missed and writes failed
C18_Witness ==
    /\ pc = "done" /\ user_count = 3 /\ result = <<TRUE, 2>>
    /\ recoveries = 1 /\ wfails.n = "several"

(* ---- C19 ---- *)
\* "9" has been handed to sendline
ExitSent == pc \in {"exit_wait", "run_exited"} \/ (pc = "done" /\ started = "True")

C19_Order ==
    \* before the final save begins, neither "8" nor "9" has been sent
    /\ ~InFinal /\ ~(pc = "done" /\ started = "True") /\ pc # "raised"
          => \A p \in 1..Len(sent) : sent[p] \notin {L8, L9}
    \* from the final save on, nothing but "8", "9" and blank lines is sent
    /\ InFinal \/ (pc = "done" /\ started = "True")
          => \A p \in 1..Len(sent) : sent[p] \in {L8, L9, Blank}
    /\ ~ExitSent /\ pc # "raised" => Count(sent, L9) = 0
    /\ ExitSent
          => /\ Count(sent, L9) = 1
             /\ sent[Len(sent)] = L9
             /\ \E p \in 1..Len(sent) : sent[p] = L8

C19_Step == ExitSent => sent' = sent

\* C19: in every run whose start_system returned True: every record's lines
\* (menu code "1", field values) are sent before the first "8"; when "9" is
\* sent an "8" was sent before it; "9" is sent exactly once in a run that
\* returns; and after "9" nothing is written.
C19_CommandOrder == []C19_Order /\ [][C19_Step]_vars

\* run on 2 records has returned after sending "8" (first save), "8" and a
\* blank line (the save inside exit_system) and "9"
C19_Witness ==
    /\ pc = "done" /\ result = <<TRUE, 2>>
    /\ sent = <<L8, L8, Blank, L9>>

====
